---------------------------- MODULE Spec2Model ----------------------------
(***************************************************************************)
(* A model of the X profile analyzer: the rate-limited acquisition client  *)
(* (X_profile_data.py, class X_tweets), the post -> feature-row transform   *)
(* (class X_profile_analytics), the keyword categorizer and the standard   *)
(* lane (content_agent.py), the enhanced lane (langchain_agent.py) and the *)
(* orchestrating run (cli.py, get_profile_analysis).                       *)
(*                                                                         *)
(* Time.  The client reads the clock only to form differences (line 33:    *)
(* current_time - last_request_time), so the model keeps elapsed times,    *)
(* each saturating at the constant it is compared with, instead of the     *)
(* absolute clock.  A step that sleeps or waits for the provider lets time *)
(* pass (After); every other statement     takes no time, which is the     *)
(* worst case for a lower bound on a gap.                                  *)
(***************************************************************************)
EXTENDS Integers, Sequences, FiniteSets, TLC

(***************************************************************************)
(* Program constants.                                                      *)
(***************************************************************************)
min_delay == 5          \* self.min_delay
user_pause == 3         \* time.sleep(3) between the two calls of get_users_tweets
cooldown == 900         \* time.sleep(900) after tweepy.TooManyRequests
RecursionLimit == 1000  \* CPython's default limit on nested frames: each retry
                        \* is a recursive call (return self.get_user_info(username))

(***************************************************************************)
(* Bounds of the model.                                                    *)
(***************************************************************************)
MaxLatency == 2    \* a provider call answers after 0..MaxLatency time units
MaxIdle == 2       \* the caller lets at most this many idle ticks pass in a row
IdleStep == 3      \* length of one idle tick
MaxCalls == 2      \* direct client calls made by a caller outside a run
MaxLibFrames == 2  \* frames the provider library needs below the client method

MaxDirect == 2     \* direct calls of a lane made by a caller outside a run

MaxGateCalls == 2  \* calls each concurrent caller makes
ClockSpan == 7     \* how far the clock runs while concurrent callers are watched

\* Two concurrent callers; an instance is named by the caller that owns it.
Callers == {1, 2}

Usernames == {"alice"}
TweetCounts == {10, 20}

\* The requests a caller can make of the client.
Requests ==
    [op : {"get_user_info"}, username : Usernames, max_tweets : {10}]
    \cup [op : {"get_users_tweets"}, username : Usernames, max_tweets : TweetCounts]

NoRequest == [op |-> "none", username |-> "", max_tweets |-> 0]

\* Posts as the provider returns them.  A text is the sequence of the fragments
\* it is made of; a keyword occurs in the text when it is one of its fragments.
Post1 == [text |-> <<"How to", "grow", "my ">>, like_count |-> 3, retweet_count |-> 1,
          reply_count |-> 1, quote_count |-> 0]
Post2 == [text |-> <<"gm">>, like_count |-> 0, retweet_count |-> 2,
          reply_count |-> 0, quote_count |-> 0]

Post3 == [text |-> <<"My ", "launch">>, like_count |-> 4, retweet_count |-> 3,
          reply_count |-> 2, quote_count |-> 1]
Post4 == [text |-> <<"Breaking", "think">>, like_count |-> 0, retweet_count |-> 5,
          reply_count |-> 5, quote_count |-> 5]
Post5 == [text |-> <<"news">>, like_count |-> 1, retweet_count |-> 0,
          reply_count |-> 0, quote_count |-> 0]
Post6 == [text |-> <<"buy", "update">>, like_count |-> 0, retweet_count |-> 0,
          reply_count |-> 0, quote_count |-> 0]

\* A post whose public_metrics lacks quote_count.
MalformedPost == [text |-> <<"gm">>, like_count |-> 1, retweet_count |-> 0,
                  reply_count |-> 0]

\* Non-empty post sequences the provider can answer a listing with.
TweetLists == {<<Post2>>, <<Post1, Post2>>}

\* The posts a user of X_profile_analytics can hand it, and the sequences of
\* them, the empty one included.
MaxPosts == 3
Posts == {Post1, Post2, Post3, Post4, Post5, Post6, MalformedPost}
PostSeqs == UNION {[1..n -> Posts] : n \in 0..MaxPosts}

VARIABLES
    instance,         \* "none": no X_tweets yet; "bare": __init__ returned early
                      \* (no token: no client, no last_request_time); "ready"
    time_since_last,  \* time.time() - self.last_request_time, saturating at min_delay
    since_issue,      \* time since the last outbound provider call of this instance
    last_gap,         \* time between the last two outbound calls (min_delay: no pair yet)
    since_reject,     \* time since the last rate-limit rejection, saturating at cooldown
    retry_wait,       \* since_reject when the last re-issued frame made its first call
    pc,               \* position of the innermost frame of the client method
    args,             \* arguments of the innermost frame
    top_args,         \* arguments of the caller's (outermost) call
    depth,            \* nested frames of the client method (0: none running)
    rejections,       \* rate-limit rejections received by the running call
    reissues,         \* recursive re-issues made by the running call
    was_rejected,     \* some response of this call was a rate-limit rejection
    last_response,    \* the provider's latest response to this call ("none": none)
    answered,         \* some response of this call was not a rate-limit rejection
    failed,           \* some response of this call was a failure other than rate limit
    late_call,        \* an outbound call was issued after such a failure
    user_data,        \* user.data of the innermost frame: "unset" | "found" | "absent"
    call_result,      \* what the caller's call gave: [kind, val]
    calls_left,       \* direct calls the caller may still make
    idle_ticks,       \* idle ticks since the last call (bounded by MaxIdle)
    run_pc,           \* position of get_profile_analysis ("idle": not called),
                      \* or of a script that uses X_profile_analytics itself
    run_args,         \* its arguments: username, max_tweets, use_langchain
    run_result,       \* what it returned: "pending" | "None" | the results dict
    run_exit,         \* the statement it left by: "no_data" (line 43), "results"
                      \* (line 99), "except" (line 103); "exit": main left by
                      \* sys.exit(1) before calling it
    tweets,           \* the fetched posts
    tweets_df,        \* the DataFrame in use: [columns, rows]
    results,          \* the results dict under construction
    openai_key,       \* OPENAI_API_KEY: "unread" until first read, then "none"
                      \* (unset), "empty" or "set"
    LANGCHAIN_AVAILABLE, \* whether the imports of langchain_agent.py succeeded:
                      \* "unread" until first read, then "yes" or "no"
    langchain_enabled,\* LangChainContentAgent.langchain_enabled ("unset": no agent)
    lane_username,    \* the username a lane was called with
    enhanced_attempt, \* "none" | "ctor_failed" | "called" | "returned"
    enh_pc,           \* position of analyze_content_with_langchain
    analyses,         \* its analyses dict
    enh_result,       \* its return value
    std_pc,           \* position of analyze_content_strategy
    std_df,           \* the DataFrame it was given
    std_result,       \* its return value
    gen_log,          \* the generation calls made so far, in order
    category_writes,  \* assignments to the content_category column so far
    direct_left,      \* direct lane calls a caller may still make
    gate_shared,      \* two concurrent callers use one X_tweets instance (TRUE)
                      \* or one instance each (FALSE)
    gate_now,         \* time.time()
    last_request_time,\* self.last_request_time of each instance
    gate_pc,          \* position of each caller in get_user_info: "idle",
                      \* "sleep" (line 36), "write" (line 37), "issue" (line 44)
    sleep_until,      \* current_time + sleep_time of each caller's gate pass
    gate_calls,       \* calls each caller has completed
    last_issue,       \* time of the last provider call of each instance
    pass_gap,         \* smallest time between two writes of last_request_time
                      \* of each instance (min_delay: none closer)
    issue_gap,        \* smallest time between two provider calls of each instance
    raced             \* a caller read last_request_time while another caller of
                      \* the same instance had read it and not yet written it

clientVars == <<instance, time_since_last, since_issue, last_gap, since_reject,
                retry_wait, pc, args, top_args, depth, rejections, reissues,
                was_rejected, last_response, answered, failed, late_call, user_data, call_result, calls_left,
                idle_ticks>>

runVars == <<run_pc, run_args, run_result, run_exit, tweets, tweets_df, results,
             openai_key, LANGCHAIN_AVAILABLE, langchain_enabled, lane_username,
             enhanced_attempt, enh_pc, analyses, enh_result, std_pc, std_df,
             std_result, gen_log, category_writes, direct_left>>

gateVars == <<gate_shared, gate_now, last_request_time, gate_pc, sleep_until,
              gate_calls, last_issue, pass_gap, issue_gap, raced>>

vars == <<clientVars, runVars, gateVars>>

Min(a, b) == IF a < b THEN a ELSE b

\* Outcomes of a client call: kind is "pending", "raise" (exc names the
\* exception), "None", "user" (user.data) or "list" (val: the posts).
Pending == [kind |-> "pending", exc |-> "", val |-> <<>>]
Raised(e) == [kind |-> "raise", exc |-> e, val |-> <<>>]
ReturnedNone == [kind |-> "None", exc |-> "", val |-> <<>>]
ReturnedUser == [kind |-> "user", exc |-> "", val |-> <<>>]
ReturnedList(v) == [kind |-> "list", exc |-> "", val |-> v]

\* The value a fetch gives up with: None for get_user_info, [] for get_users_tweets.
FailureValue(a) == IF a.op = "get_user_info" THEN ReturnedNone ELSE ReturnedList(<<>>)

\* An elapsed time c after d more time units, saturating at cap.
After(c, d, cap) == Min(c + d, cap)

\* Whether a frame at nesting depth d can call k frames deeper.
CanCall(d, k) == d + k <= RecursionLimit

UserResponses == {"ok", "no_user", "rate_limit", "error"}
ListingResponses == {"ok", "no_data", "rate_limit", "error"}

Running == pc \in {"gate", "lookup", "pause", "listing", "cooldown"}

\* The caller's call ends with outcome r: `return self.get_...(...)` hands the
\* innermost frame's outcome through every enclosing frame unchanged.
Unwind(r) == r

\* Every frame of the call is gone once it has ended.
Finish(r) ==
    /\ pc' = IF r.kind = "raise" THEN "raised" ELSE "returned"
    /\ call_result' = Unwind(r)
    /\ depth' = 0
    /\ rejections' = 0
    /\ reissues' = 0

\* The call goes on in the same frame.
Continue(next) ==
    /\ pc' = next
    /\ UNCHANGED <<call_result, depth, rejections, reissues>>

\* The provider has rejected the call for the rate limit.
Rejected ==
    /\ pc' = "cooldown"
    /\ rejections' = rejections + 1
    /\ UNCHANGED <<call_result, depth, reissues>>

(***************************************************************************)
(* X_tweets.__init__: with no bearer token it returns before the client    *)
(* and last_request_time are set.  A new instance has last_request_time =  *)
(* 0, far behind the clock, and has issued nothing.                        *)
(***************************************************************************)
X_tweets_init(token) ==
    /\ instance' = IF token THEN "ready" ELSE "bare"
    /\ time_since_last' = min_delay
    /\ since_issue' = min_delay
    /\ last_gap' = min_delay
    /\ since_reject' = cooldown
    /\ retry_wait' = cooldown

\* The caller's view of a finished call is dropped: no frame is left.
Forget ==
    /\ args' = NoRequest
    /\ top_args' = NoRequest
    /\ depth' = 0
    /\ rejections' = 0
    /\ reissues' = 0
    /\ was_rejected' = FALSE
    /\ last_response' = "none"
    /\ answered' = FALSE
    /\ failed' = FALSE
    /\ late_call' = FALSE
    /\ user_data' = "unset"
    /\ call_result' = Pending

\* A caller enters get_user_info(username) or get_users_tweets(username, max_tweets).
Enter(r) ==
    /\ args' = r
    /\ top_args' = r
    /\ depth' = 1
    /\ rejections' = 0
    /\ reissues' = 0
    /\ was_rejected' = FALSE
    /\ last_response' = "none"
    /\ answered' = FALSE
    /\ failed' = FALSE
    /\ late_call' = FALSE
    /\ user_data' = "unset"
    /\ call_result' = Pending
    /\ pc' = "gate"

NewClient ==
    /\ ~Running
    /\ run_pc = "idle"
    /\ direct_left = MaxDirect
    /\ instance = "none"
    /\ \E token \in BOOLEAN : X_tweets_init(token)
    /\ UNCHANGED <<pc, args, top_args, depth, rejections, reissues, was_rejected,
                   last_response, answered, failed, late_call, user_data, call_result,
                   calls_left, idle_ticks>>
    /\ UNCHANGED runVars
    /\ UNCHANGED gateVars

CallClient ==
    /\ ~Running
    /\ run_pc = "idle"
    /\ direct_left = MaxDirect
    /\ instance # "none"
    /\ calls_left > 0
    /\ \E r \in Requests : Enter(r)
    /\ calls_left' = calls_left - 1
    /\ idle_ticks' = 0
    /\ UNCHANGED <<instance, time_since_last, since_issue, last_gap, since_reject,
                   retry_wait>>
    /\ UNCHANGED runVars
    /\ UNCHANGED gateVars

\* The caller does something else for IdleStep time units.
Tick ==
    /\ ~Running
    /\ run_pc = "idle"
    /\ direct_left = MaxDirect
    /\ instance = "ready"
    /\ calls_left > 0
    /\ idle_ticks < MaxIdle
    /\ idle_ticks' = idle_ticks + 1
    /\ time_since_last' = After(time_since_last, IdleStep, min_delay)
    /\ since_issue' = After(since_issue, IdleStep, min_delay)
    /\ since_reject' = After(since_reject, IdleStep, cooldown)
    /\ pc' = "idle"
    /\ Forget
    /\ UNCHANGED <<instance, last_gap, retry_wait, calls_left>>
    /\ UNCHANGED runVars
    /\ UNCHANGED gateVars

(***************************************************************************)
(* X_tweets._rate_limited_request, called first thing by both fetch        *)
(* methods, outside their try block.  On a bare instance the read of       *)
(* self.last_request_time raises AttributeError; in a frame at the         *)
(* recursion limit the call itself raises RecursionError.  Neither is      *)
(* caught by the method.                                                   *)
(***************************************************************************)
_rate_limited_request ==
    /\ pc = "gate"
    /\ IF instance = "bare"
         THEN /\ Finish(Raised("AttributeError"))
              /\ UNCHANGED <<time_since_last, since_issue, since_reject>>
         ELSE IF ~CanCall(depth, 1)
         THEN /\ Finish(Raised("RecursionError"))
              /\ UNCHANGED <<time_since_last, since_issue, since_reject>>
         ELSE LET sleep_time == IF time_since_last < min_delay
                                  THEN min_delay - time_since_last
                                  ELSE 0
              IN  /\ time_since_last' = 0
                  /\ since_issue' = After(since_issue, sleep_time, min_delay)
                  /\ since_reject' = After(since_reject, sleep_time, cooldown)
                  /\ Continue("lookup")
    /\ UNCHANGED <<instance, last_gap, retry_wait, args, top_args, was_rejected,
                   last_response, answered, failed, late_call, user_data, calls_left,
                   idle_ticks>>
    /\ UNCHANGED runVars
    /\ UNCHANGED gateVars

ExceptExceptionReraise(a) == Raised("Exception")

\* except Exception (lines 53-55, 76-78): give up with the failure value.
ExceptException(a) == FailureValue(a)

\* The clocks and history of an outbound provider call that is issued now and
\* answered with resp after lat time units.  first: the frame's first call.
Outbound(resp, lat, first) ==
    /\ last_gap' = since_issue
    /\ since_issue' = After(0, lat, min_delay)
    /\ time_since_last' = After(time_since_last, lat, min_delay)
    /\ since_reject' = IF resp = "rate_limit" THEN 0
                       ELSE After(since_reject, lat, cooldown)
    /\ retry_wait' = IF first /\ depth > 1 THEN since_reject ELSE retry_wait
    /\ late_call' = (late_call \/ failed)
    /\ last_response' = resp
    /\ was_rejected' = (was_rejected \/ resp = "rate_limit")
    /\ answered' = (answered \/ resp # "rate_limit")
    /\ failed' = (failed \/ resp \in {"error", "no_user"})

\* A RecursionError raised below the provider call, inside the try block, is an
\* Exception like any other: no call goes out and the method gives up.
Overflow ==
    /\ Finish(ExceptException(args))
    /\ UNCHANGED <<last_gap, since_issue, time_since_last, since_reject, retry_wait,
                   late_call, last_response, was_rejected, answered, failed>>

(***************************************************************************)
(* self.client.get_user(username=...), the first statement of the try      *)
(* block of both methods.  get_user_info returns user.data (None when the  *)
(* handle resolves to no user); get_users_tweets goes on to time.sleep(3). *)
(***************************************************************************)
client_get_user ==
    /\ pc = "lookup"
    /\ \E k \in 1..MaxLibFrames, lat \in 0..MaxLatency, resp \in UserResponses :
         IF ~CanCall(depth, k)
           THEN Overflow /\ UNCHANGED user_data
           ELSE /\ Outbound(resp, lat, TRUE)
                /\ user_data' = CASE resp = "ok" -> "found"
                                  [] resp = "no_user" -> "absent"
                                  [] OTHER -> user_data
                /\ CASE resp = "rate_limit" ->
                          Rejected
                     [] resp = "error" ->
                          Finish(ExceptException(args))
                     [] args.op = "get_user_info" ->
                          Finish(IF resp = "ok" THEN ReturnedUser ELSE ReturnedNone)
                     [] OTHER ->
                          Continue("pause")
    /\ UNCHANGED <<instance, args, top_args, calls_left, idle_ticks>>
    /\ UNCHANGED runVars
    /\ UNCHANGED gateVars

\* time.sleep(3) in get_users_tweets, between the lookup and the listing.
sleep_between ==
    /\ pc = "pause"
    /\ time_since_last' = After(time_since_last, user_pause, min_delay)
    /\ since_issue' = After(since_issue, user_pause, min_delay)
    /\ since_reject' = After(since_reject, user_pause, cooldown)
    /\ Continue("listing")
    /\ UNCHANGED <<instance, last_gap, retry_wait, args, top_args, was_rejected,
                   last_response, answered, failed, late_call, user_data, calls_left,
                   idle_ticks>>
    /\ UNCHANGED runVars
    /\ UNCHANGED gateVars

(***************************************************************************)
(* self.client.get_users_tweets(user.data.id, ...).  With user.data None   *)
(* the argument user.data.id raises AttributeError before any call goes    *)
(* out.  The method returns tweets.data, or [] when that is empty or None. *)
(***************************************************************************)
client_get_users_tweets ==
    /\ pc = "listing"
    /\ IF user_data = "absent"
         THEN /\ Finish(ExceptException(args))
              /\ UNCHANGED <<last_gap, since_issue, time_since_last, since_reject,
                             retry_wait, late_call, last_response, was_rejected,
                             answered, failed>>
         ELSE \E k \in 1..MaxLibFrames, lat \in 0..MaxLatency,
                 resp \in ListingResponses, data \in TweetLists :
                IF ~CanCall(depth, k)
                  THEN Overflow
                  ELSE /\ Outbound(resp, lat, FALSE)
                       /\ CASE resp = "rate_limit" ->
                                 Rejected
                            [] resp = "error" ->
                                 Finish(ExceptException(args))
                            [] resp = "no_data" ->
                                 Finish(ReturnedList(<<>>))
                            [] OTHER ->
                                 Finish(ReturnedList(data))
    /\ UNCHANGED <<instance, args, top_args, user_data, calls_left, idle_ticks>>
    /\ UNCHANGED runVars
    /\ UNCHANGED gateVars

\* The arguments of the re-issued call: the method calls itself with its own.
RetryArgs(a) == a

\* The length of the sleep before a re-issue.
RetrySleep == cooldown

(***************************************************************************)
(* except tweepy.TooManyRequests: time.sleep(900), then the method calls   *)
(* itself and returns what that call returns.  The call is made from the   *)
(* handler, so an exception it raises is not caught by this frame.         *)
(***************************************************************************)
rate_limit_retry ==
    /\ pc = "cooldown"
    /\ time_since_last' = After(time_since_last, RetrySleep, min_delay)
    /\ since_issue' = After(since_issue, RetrySleep, min_delay)
    /\ since_reject' = After(since_reject, RetrySleep, cooldown)
    /\ IF CanCall(depth, 1)
         THEN /\ depth' = depth + 1
              /\ reissues' = reissues + 1
              /\ args' = RetryArgs(args)
              /\ user_data' = "unset"
              /\ pc' = "gate"
              /\ UNCHANGED <<call_result, rejections>>
         ELSE /\ Finish(Raised("RecursionError"))
              /\ UNCHANGED <<args, user_data>>
    /\ UNCHANGED <<instance, last_gap, retry_wait, top_args, was_rejected,
                   last_response, answered, failed, late_call, calls_left, idle_ticks>>
    /\ UNCHANGED runVars
    /\ UNCHANGED gateVars

(***************************************************************************)
(* X_profile_analytics.tweets_to_dataframe: one row per post, in order.    *)
(* pd.DataFrame([]) has no columns, so for no posts the conversion of the  *)
(* created_at column (line 127) raises KeyError.                           *)
(***************************************************************************)
RequiredFields == {"text", "like_count", "retweet_count", "reply_count", "quote_count"}

\* A post has every field the loop reads (lines 92-104).
well_formed(tweet) == RequiredFields \subseteq DOMAIN tweet

rate_divisor_raw(like_count) == like_count

\* max(tweet.public_metrics['like_count'], 1)  (line 123)
rate_divisor(like_count) == IF like_count > 1 THEN like_count ELSE 1

engagement_all_but_quotes(tweet) ==
    tweet.like_count + tweet.retweet_count + tweet.reply_count

\* Lines 92-95.
engagement_of(tweet) ==
    tweet.like_count + tweet.retweet_count + tweet.reply_count + tweet.quote_count

\* The row of one post.  engagement_rate is the quotient of line 123, kept as
\* numerator and divisor.
FeatureRow(tweet) ==
    [text |-> tweet.text,
     likes |-> tweet.like_count,
     retweets |-> tweet.retweet_count,
     replies |-> tweet.reply_count,
     quotes |-> tweet.quote_count,
     engagement |-> engagement_of(tweet),
     engagement_rate |-> [num |-> engagement_of(tweet),
                          den |-> rate_divisor(tweet.like_count)]]

\* The transform raises: KeyError for a post that lacks a field,
\* ZeroDivisionError for a zero divisor, and KeyError('created_at') at line
\* 127 for no posts at all (pd.DataFrame([]) has no columns).
transform_raises(tw) ==
    \/ \E i \in 1..Len(tw) : ~well_formed(tw[i])
    \/ \E i \in 1..Len(tw) : well_formed(tw[i]) /\ rate_divisor(tw[i].like_count) = 0
    \/ tw = <<>>

tweets_to_dataframe_reversed(tw) ==
    [i \in 1..Len(tw) |-> FeatureRow(tw[Len(tw) + 1 - i])]

tweets_to_dataframe(tw) == [i \in 1..Len(tw) |-> FeatureRow(tw[i])]

\* pd.DataFrame(): no rows and no columns.
EmptyFrame == <<>>

Columns(df) == IF df = <<>> THEN {} ELSE DOMAIN df[1]

\* str.lower on a fragment.
Lower(f) == CASE f = "How to" -> "how to"
              [] f = "Learn" -> "learn"
              [] f = "My " -> "my "
              [] f = "Breaking" -> "breaking"
              [] OTHER -> f

educational_patterns == {"how to", "guide", "tutorial", "learn", "tip", "advice",
                         "here's", "steps"}
personal_patterns == {"i ", "my ", "me ", "personal", "story", "experience",
                      "feeling", "today"}
promotional_patterns == {"buy", "sale", "course", "product", "launch", "offer",
                         "discount", "link in bio"}
opinion_patterns == {"think", "believe", "opinion", "hot take", "unpopular",
                     "controversial"}
news_patterns == {"breaking", "just announced", "update", "news", "happening now"}

\* ContentAnalysisAgent.categorize_tweet: the first group with a keyword in the
\* lower-cased text.
categorize_tweet_personal_first(text) ==
    LET text_lower == {Lower(text[i]) : i \in 1..Len(text)}
        any(patterns) == patterns \cap text_lower # {}
    IN  IF any(personal_patterns) THEN "Personal"
        ELSE IF any(educational_patterns) THEN "Educational"
        ELSE IF any(promotional_patterns) THEN "Promotional"
        ELSE IF any(opinion_patterns) THEN "Opinion/Commentary"
        ELSE IF any(news_patterns) THEN "News/Updates"
        ELSE "General"

categorize_tweet(text) ==
    LET text_lower == {Lower(text[i]) : i \in 1..Len(text)}
        any(patterns) == patterns \cap text_lower # {}
    IN  IF any(educational_patterns) THEN "Educational"
        ELSE IF any(personal_patterns) THEN "Personal"
        ELSE IF any(promotional_patterns) THEN "Promotional"
        ELSE IF any(opinion_patterns) THEN "Opinion/Commentary"
        ELSE IF any(news_patterns) THEN "News/Updates"
        ELSE "General"

\* df["content_category"] = [categorize_tweet(text) for text in df['text']]:
\* the column is created, or overwritten when it is there already.
AssignCategories(df) ==
    [i \in 1..Len(df) |->
        ("content_category" :> categorize_tweet(df[i].text)) @@ df[i]]

MaxOf(S) == CHOOSE m \in S : \A x \in S : x <= m

RECURSIVE SumOf(_)
SumOf(s) == IF s = <<>> THEN 0 ELSE Head(s) + SumOf(Tail(s))

\* df['engagement']
Engagements(df) == [i \in 1..Len(df) |-> df[i].engagement]

\* The values of s in ascending order.
SortedSeq(s) ==
    CHOOSE t \in [1..Len(s) -> {s[i] : i \in 1..Len(s)}] :
        /\ \A i \in 1..(Len(s) - 1) : t[i] <= t[i + 1]
        /\ \A v \in {s[i] : i \in 1..Len(s)} :
              Cardinality({i \in 1..Len(s) : t[i] = v})
                  = Cardinality({i \in 1..Len(s) : s[i] = v})

\* a / b rounded to the nearest integer.
RoundDiv(a, b) == (2 * a + b) \div (2 * b)

\* Series.mean(), in tenths as `:.1f` prints it.
MeanTenths(s) == RoundDiv(10 * SumOf(s), Len(s))

\* Series.median(), in tenths: the middle value, or the mean of the two middle
\* values.
MedianTenths(s) ==
    LET t == SortedSeq(s)
        n == Len(s)
    IN  IF n % 2 = 1 THEN 10 * t[(n + 1) \div 2]
        ELSE 5 * (t[n \div 2] + t[n \div 2 + 1])

\* Series.std() divides the sum of squared deviations by n - ddof, and pandas'
\* default is ddof = 1 (the sample standard deviation).
ddof == 1

\* n^2 times the sum of the squared deviations from the mean.
Deviations(s) ==
    SumOf([i \in 1..Len(s) |-> (Len(s) * s[i] - SumOf(s)) * (Len(s) * s[i] - SumOf(s))])

\* The integer nearest to 100 * sqrt(num / den).
SqrtHundredths(num, den) ==
    LET q == (40000 * num) \div den
    IN  CHOOSE h \in 0..1000 :
            /\ (h = 0 \/ (2 * h - 1) * (2 * h - 1) <= q)
            /\ q < (2 * h + 1) * (2 * h + 1)

\* std / mean with the deviations divided by n - d, in hundredths as `:.2f`
\* prints it: (std / mean)^2 = Deviations / ((n - d) * sum^2).  It is nan for
\* a single row with d = 1 and for a zero mean.
ConsistencyWith(s, d) ==
    IF Len(s) - d <= 0 \/ SumOf(s) = 0
      THEN [nan |-> TRUE, hundredths |-> 0]
      ELSE [nan |-> FALSE,
            hundredths |-> SqrtHundredths(Deviations(s),
                                          (Len(s) - d) * SumOf(s) * SumOf(s))]

\* df['engagement'].std() / df['engagement'].mean()  (line 85)
Consistency(s) == ConsistencyWith(s, ddof)

\* The figures prepare_content_data writes into its summary (lines 72-85).
Summary(df) ==
    [total |-> Len(df),
     mean |-> MeanTenths(Engagements(df)),
     median |-> MedianTenths(Engagements(df)),
     best |-> MaxOf({df[i].engagement : i \in 1..Len(df)}),
     consistency |-> Consistency(Engagements(df))]

\* A generation call can succeed only with a credential the service accepts.
GenOutcomes == IF openai_key = "set" THEN BOOLEAN ELSE {FALSE}

\* OpenAI(api_key=os.getenv("OPENAI_API_KEY")): the library refuses a key that
\* is None, and accepts any string.
OpenAIRaises(key) == key = "none"

\* The values OPENAI_API_KEY can have when it is read: fixed once read.
KeyValues == IF openai_key = "unread" THEN {"none", "empty", "set"} ELSE {openai_key}

AgentName == "Content Analysis Agent"
EnhancedName == "Enhanced Content Analysis Agent"

\* The log with one more generation call: the lane and step that made it, the
\* earlier outputs its prompt embeds, and whether it succeeded.
Log(lane, step, embeds, ok) ==
    Append(gen_log, [lane |-> lane, step |-> step, embeds |-> embeds, ok |-> ok])

LanesIdle == enh_pc \in {"idle", "done"} /\ std_pc \in {"idle", "done", "raised"}

AvailableValues ==
    IF LANGCHAIN_AVAILABLE = "unread" THEN {"yes", "no"} ELSE {LANGCHAIN_AVAILABLE}

NoResult == [none |-> TRUE]
NoArgs == [username |-> "", max_tweets |-> 0, use_langchain |-> FALSE]
EmptyDict == [k \in {} |-> ""]

\* The variables no step of a lane or of the run touches.
enhVars == <<enh_pc, analyses, enh_result>>
stdVars == <<std_pc, std_df, std_result>>
runCore == <<run_pc, run_args, run_result, run_exit, tweets, results>>

(***************************************************************************)
(* The standard lane: ContentAnalysisAgent.analyze_content_strategy.       *)
(***************************************************************************)
\* The caller's call analyze_content_strategy(df, username); df is the frame the
\* caller holds in tweets_df.
std_call(df, username) ==
    /\ std_pc' = "prepare"
    /\ std_df' = df
    /\ std_result' = NoResult
    /\ lane_username' = username

\* prepare_content_data raises when the frame lacks a column it reads: df['text']
\* comes first (line 44).  Nothing in analyze_content_strategy catches it.
prepare_raises(df) == "text" \notin Columns(df)

\* prepare_content_data (line 22) and create_analysis_prompt (line 24).  The
\* frame is the caller's: the category column is written in place.
prepare_content_data ==
    /\ std_pc = "prepare"
    /\ IF prepare_raises(tweets_df)
         THEN /\ std_pc' = "raised"
              /\ UNCHANGED <<tweets_df, category_writes>>
         ELSE /\ tweets_df' = AssignCategories(tweets_df)
              /\ category_writes' = category_writes + 1
              /\ std_pc' = "generate"
    /\ UNCHANGED <<std_df, std_result, lane_username>>
    /\ UNCHANGED <<runCore, enhVars, openai_key, LANGCHAIN_AVAILABLE,
                   langchain_enabled, enhanced_attempt, gen_log, direct_left>>
    /\ UNCHANGED clientVars
    /\ UNCHANGED gateVars

\* gen_ai_analysis: the text of the answer, or the text of the error.
gen_ai_analysis(ok) == IF ok THEN "insights" ELSE "Error getting AI analysis"

\* The calls gen_ai_analysis would log if it tried a failed call once more.
calls_retrying(ok) ==
    IF ok THEN Log("standard", "analysis", <<>>, ok)
    ELSE Append(Log("standard", "analysis", <<>>, ok),
                [lane |-> "standard", step |-> "analysis", embeds |-> <<>>, ok |-> ok])

\* The calls of gen_ai_analysis (lines 151-166): one chat.completions.create,
\* whose failure is caught and not retried.
calls_of_gen_ai_analysis(ok) == Log("standard", "analysis", <<>>, ok)

\* Lines 26-38: the one generation call and the result dict.
std_generate ==
    /\ std_pc = "generate"
    /\ \E ok \in GenOutcomes :
         /\ gen_log' = calls_of_gen_ai_analysis(ok)
         /\ std_result' = [agent |-> AgentName,
                           username |-> lane_username,
                           analysis |-> gen_ai_analysis(ok),
                           data_summary |-> Summary(tweets_df)]
    /\ std_pc' = "done"
    /\ UNCHANGED <<std_df, lane_username, tweets_df, category_writes>>
    /\ UNCHANGED <<runCore, enhVars, openai_key, LANGCHAIN_AVAILABLE,
                   langchain_enabled, enhanced_attempt, direct_left>>
    /\ UNCHANGED clientVars
    /\ UNCHANGED gateVars

(***************************************************************************)
(* The enhanced lane: LangChainContentAgent.                               *)
(***************************************************************************)
\* __init__ raises ValueError for a key that is None or empty (lines 29-31).
ctor_raises(key) == key \in {"none", "empty"}

\* langchain_enabled after __init__: LANGCHAIN_AVAILABLE, unless building the
\* LangChain components failed (lines 35-58).
ctor_enabled(available, components_ok) ==
    IF available = "yes" /\ components_ok THEN "yes" ELSE "no"

\* The dict analyze_content_with_langchain returns from its except clause.
ErrorMarker(message) ==
    [agent |-> EnhancedName, username |-> lane_username, error |-> message]

\* _call_openai: the text of the answer, or the text of the error (line 295).
_call_openai(ok) == IF ok THEN "answer" ELSE "Analysis error"

enabled_after_failure(enabled, call_failed) == IF call_failed THEN "no" ELSE enabled

\* self.langchain_enabled after a call of analyze_content_with_langchain: the
\* method and its except clause only read the attribute.
enabled_after_call(enabled, call_failed) == enabled

\* analyze_content_with_langchain, lines 201-214.  The class defines no
\* _langchain_analysis, so with langchain_enabled the attribute lookup raises
\* AttributeError; _enhanced_openai_analysis starts by reading tweets_df['text'].
enh_dispatch ==
    /\ enh_pc = "start"
    /\ IF langchain_enabled = "yes"
         THEN /\ enh_result' = ErrorMarker("AttributeError")
              /\ langchain_enabled' = enabled_after_call(langchain_enabled, TRUE)
              /\ enh_pc' = "done"
         ELSE IF "text" \notin Columns(tweets_df)
         THEN /\ enh_result' = ErrorMarker("KeyError")
              /\ langchain_enabled' = enabled_after_call(langchain_enabled, TRUE)
              /\ enh_pc' = "done"
         ELSE /\ enh_pc' = "themes"
              /\ langchain_enabled' = enabled_after_call(langchain_enabled, FALSE)
              /\ UNCHANGED enh_result
    /\ analyses' = EmptyDict
    /\ UNCHANGED <<runCore, stdVars, tweets_df, openai_key, LANGCHAIN_AVAILABLE,
                   lane_username, enhanced_attempt, gen_log,
                   category_writes, direct_left>>
    /\ UNCHANGED clientVars
    /\ UNCHANGED gateVars

\* One step of the chain: analyses[key] = self._call_openai(prompt).
enh_step(here, key, next) ==
    /\ enh_pc = here
    /\ \E ok \in GenOutcomes :
         /\ gen_log' = Log("enhanced", key, <<>>, ok)
         /\ analyses' = (key :> _call_openai(ok)) @@ analyses
    /\ enh_pc' = next
    /\ UNCHANGED enh_result
    /\ UNCHANGED <<runCore, stdVars, tweets_df, openai_key, LANGCHAIN_AVAILABLE,
                   langchain_enabled, lane_username, enhanced_attempt,
                   category_writes, direct_left>>
    /\ UNCHANGED clientVars
    /\ UNCHANGED gateVars

enh_themes == enh_step("themes", "themes", "engagement")

enh_engagement == enh_step("engagement", "engagement", "strategy")

\* The dict _enhanced_openai_analysis returns (lines 271-279).
EnhancedResult(recommendations) ==
    [agent |-> EnhancedName,
     username |-> lane_username,
     theme_analyses |-> analyses,
     recommendations |-> recommendations,
     document_count |-> Len(tweets_df),
     analysis_type |-> "Enhanced OpenAI"]

EmbeddedNothing == <<>>

\* What the strategy prompt embeds (lines 260-261): analyses['themes'][:500]
\* and analyses['engagement'][:500].
EmbeddedOutputs == <<analyses["themes"], analyses["engagement"]>>

\* The third call, and the return.
enh_strategy ==
    /\ enh_pc = "strategy"
    /\ \E ok \in GenOutcomes :
         /\ gen_log' = Log("enhanced", "recommendations", EmbeddedOutputs, ok)
         /\ enh_result' = EnhancedResult(_call_openai(ok))
    /\ enh_pc' = "done"
    /\ UNCHANGED analyses
    /\ UNCHANGED <<runCore, stdVars, tweets_df, openai_key, LANGCHAIN_AVAILABLE,
                   langchain_enabled, lane_username, enhanced_attempt,
                   category_writes, direct_left>>
    /\ UNCHANGED clientVars
    /\ UNCHANGED gateVars

LaneStep ==
    \/ prepare_content_data
    \/ std_generate
    \/ enh_dispatch
    \/ enh_themes
    \/ enh_engagement
    \/ enh_strategy

(***************************************************************************)
(* cli.py, get_profile_analysis.                                           *)
(***************************************************************************)
RunPending == [kind |-> "pending", val |-> EmptyDict]
RunNone == [kind |-> "None", val |-> EmptyDict]
RunDict(d) == [kind |-> "dict", val |-> d]

\* A return of get_profile_analysis.
run_return(value, exit) ==
    /\ run_result' = value
    /\ run_exit' = exit
    /\ run_pc' = "done"

\* An exception that leaves get_profile_analysis.
RunRaised == [kind |-> "raise", val |-> EmptyDict]

run_except_propagates == run_return(RunRaised, "except")

\* The outer handler (lines 101-103).
run_except == run_return(RunNone, "except")

\* Lines 35-39: a new client, and the call of get_users_tweets.
run_start ==
    /\ run_pc = "idle"
    /\ instance = "none"
    /\ pc = "idle"
    /\ LanesIdle
    /\ direct_left = MaxDirect
    /\ \E token \in BOOLEAN, username \in Usernames, max_tweets \in TweetCounts,
          use_langchain \in BOOLEAN :
         /\ X_tweets_init(token)
         /\ Enter([op |-> "get_users_tweets", username |-> username,
                   max_tweets |-> max_tweets])
         /\ run_args' = [username |-> username, max_tweets |-> max_tweets,
                         use_langchain |-> use_langchain]
    /\ run_pc' = "fetch"
    /\ UNCHANGED <<calls_left, idle_ticks>>
    /\ UNCHANGED <<run_result, run_exit, tweets, tweets_df, results, openai_key,
                   LANGCHAIN_AVAILABLE, langchain_enabled, lane_username,
                   enhanced_attempt, enhVars, stdVars, gen_log, category_writes,
                   direct_left>>
    /\ UNCHANGED gateVars

\* `if not os.getenv(...)` in main (lines 234, 239): an unset variable and an
\* empty one are both missing.
key_missing(key) == key \in {"none", "empty"}

(***************************************************************************)
(* cli.py, main, lines 233-251: both credentials are checked before the    *)
(* run; with either missing the program exits (sys.exit(1)) and            *)
(* get_profile_analysis is not called.                                     *)
(***************************************************************************)
cli_main ==
    /\ run_pc = "idle"
    /\ instance = "none"
    /\ pc = "idle"
    /\ LanesIdle
    /\ direct_left = MaxDirect
    /\ \E token \in BOOLEAN, key \in KeyValues, username \in Usernames,
          max_tweets \in TweetCounts, no_langchain \in BOOLEAN :
         /\ openai_key' = key
         /\ IF ~token \/ key_missing(key)
              THEN /\ run_pc' = "done"
                   /\ run_exit' = "exit"
                   /\ UNCHANGED <<run_args, clientVars>>
              ELSE /\ X_tweets_init(token)
                   /\ Enter([op |-> "get_users_tweets", username |-> username,
                             max_tweets |-> max_tweets])
                   /\ run_args' = [username |-> username, max_tweets |-> max_tweets,
                                   use_langchain |-> ~no_langchain]
                   /\ run_pc' = "fetch"
                   /\ UNCHANGED <<run_exit, calls_left, idle_ticks>>
    /\ UNCHANGED <<run_result, tweets, tweets_df, results,
                   LANGCHAIN_AVAILABLE, langchain_enabled, lane_username,
                   enhanced_attempt, enhVars, stdVars, gen_log, category_writes,
                   direct_left>>
    /\ UNCHANGED gateVars

no_tweets_unchecked(tw) == FALSE

\* What `if not tweets` (line 41) does with an empty list.
no_tweets(tw) == tw = <<>>

\* Lines 39-50: the fetch has ended; leave with None for no posts, else build
\* the frame.
run_fetched ==
    /\ run_pc = "fetch"
    /\ pc \in {"returned", "raised"}
    /\ IF call_result.kind = "raise"
         THEN run_except /\ UNCHANGED <<tweets, tweets_df>>
         ELSE IF no_tweets(call_result.val)
         THEN run_return(RunNone, "no_data") /\ UNCHANGED <<tweets, tweets_df>>
         ELSE IF transform_raises(call_result.val)
         THEN run_except /\ UNCHANGED <<tweets, tweets_df>>
         ELSE /\ tweets' = call_result.val
              /\ tweets_df' = tweets_to_dataframe(call_result.val)
              /\ run_pc' = "categorize"
              /\ UNCHANGED <<run_result, run_exit>>
    /\ pc' = "idle"
    /\ Forget
    /\ UNCHANGED <<instance, time_since_last, since_issue, last_gap, since_reject,
                   retry_wait, calls_left, idle_ticks>>
    /\ UNCHANGED <<run_args, results, openai_key, LANGCHAIN_AVAILABLE,
                   langchain_enabled, lane_username, enhanced_attempt, enhVars,
                   stdVars, gen_log, category_writes, direct_left>>
    /\ UNCHANGED gateVars

\* `if use_langchain:` (line 63).
first_lane_always(use_langchain) == "enhanced"

first_lane(use_langchain) == IF use_langchain THEN "enhanced" ELSE "standard"

\* Lines 53-61: the standard agent, the category column, the empty results.
run_categorize ==
    /\ run_pc = "categorize"
    /\ \E key \in KeyValues :
         /\ openai_key' = key
         /\ IF OpenAIRaises(key)
              THEN /\ run_except
                   /\ UNCHANGED <<tweets_df, category_writes, results>>
              ELSE /\ tweets_df' = AssignCategories(tweets_df)
                   /\ category_writes' = category_writes + 1
                   /\ results' = EmptyDict
                   /\ run_pc' = first_lane(run_args.use_langchain)
                   /\ UNCHANGED <<run_result, run_exit>>
    /\ UNCHANGED <<run_args, tweets, LANGCHAIN_AVAILABLE, langchain_enabled,
                   lane_username, enhanced_attempt, enhVars, stdVars, gen_log,
                   direct_left>>
    /\ UNCHANGED clientVars
    /\ UNCHANGED gateVars

AfterEnhancedErrorStop == "done"

\* Where the run goes on after the handler of line 75.
AfterEnhancedError == "standard"

AfterEnhancedCallNoWait == "standard"

\* Line 67 is a plain call: the run goes on when the analysis has returned.
AfterEnhancedCall == "enhanced_wait"

\* Lines 63-69: the enhanced agent and the call of its analysis.  An exception
\* of the constructor is caught at line 75: nothing is stored in results.
run_enhanced ==
    /\ run_pc = "enhanced"
    /\ IF ctor_raises(openai_key)
         THEN /\ enhanced_attempt' = "ctor_failed"
              /\ run_pc' = AfterEnhancedError
              /\ UNCHANGED <<LANGCHAIN_AVAILABLE, langchain_enabled, lane_username,
                             enh_pc>>
         ELSE \E available \in AvailableValues, components_ok \in BOOLEAN :
                /\ LANGCHAIN_AVAILABLE' = available
                /\ langchain_enabled' = ctor_enabled(available, components_ok)
                /\ lane_username' = run_args.username
                /\ enh_pc' = "start"
                /\ enhanced_attempt' = "called"
                /\ run_pc' = AfterEnhancedCall
    /\ UNCHANGED <<run_args, run_result, run_exit, tweets, tweets_df, results,
                   openai_key, analyses, enh_result, stdVars, gen_log,
                   category_writes, direct_left>>
    /\ UNCHANGED clientVars
    /\ UNCHANGED gateVars

\* Line 67: results['langchain'] = what the analysis returned.
run_enhanced_returned ==
    /\ run_pc = "enhanced_wait"
    /\ enh_pc = "done"
    /\ results' = ("langchain" :> enh_result) @@ results
    /\ enhanced_attempt' = "returned"
    /\ run_pc' = "standard"
    /\ UNCHANGED <<run_args, run_result, run_exit, tweets, tweets_df, openai_key,
                   LANGCHAIN_AVAILABLE, langchain_enabled, lane_username, enhVars,
                   stdVars, gen_log, category_writes, direct_left>>
    /\ UNCHANGED clientVars
    /\ UNCHANGED gateVars

\* Line 81: the call of the standard lane on the run's frame.
run_standard ==
    /\ run_pc = "standard"
    /\ std_call(tweets_df, run_args.username)
    /\ run_pc' = "standard_wait"
    /\ UNCHANGED <<run_args, run_result, run_exit, tweets, tweets_df, results,
                   openai_key, LANGCHAIN_AVAILABLE, langchain_enabled,
                   enhanced_attempt, enhVars, gen_log, category_writes, direct_left>>
    /\ UNCHANGED clientVars
    /\ UNCHANGED gateVars

\* Lines 81-84: results['standard'] = what the lane returned; an exception of
\* the lane goes to the outer handler.
run_standard_returned ==
    /\ run_pc = "standard_wait"
    /\ std_pc \in {"done", "raised"}
    /\ IF std_pc = "raised"
         THEN run_except /\ UNCHANGED results
         ELSE /\ results' = ("standard" :> std_result) @@ results
              /\ run_pc' = "display"
              /\ UNCHANGED <<run_result, run_exit>>
    /\ UNCHANGED <<run_args, tweets, tweets_df, openai_key, LANGCHAIN_AVAILABLE,
                   langchain_enabled, lane_username, enhanced_attempt, enhVars,
                   stdVars, gen_log, category_writes, direct_left>>
    /\ UNCHANGED clientVars
    /\ UNCHANGED gateVars

\* Lines 87-99: display_results, save_analysis_results (which catches its own
\* errors) and `return results`.
run_finish ==
    /\ run_pc = "display"
    /\ run_return(RunDict(results), "results")
    /\ UNCHANGED <<run_args, tweets, tweets_df, results, openai_key,
                   LANGCHAIN_AVAILABLE, langchain_enabled, lane_username,
                   enhanced_attempt, enhVars, stdVars, gen_log, category_writes,
                   direct_left>>
    /\ UNCHANGED clientVars
    /\ UNCHANGED gateVars

RunStep ==
    \/ cli_main
    \/ run_start
    \/ run_fetched
    \/ run_categorize
    \/ run_enhanced
    \/ run_enhanced_returned
    \/ run_standard
    \/ run_standard_returned
    \/ run_finish

(***************************************************************************)
(* Callers of a lane other than the run (test_content_agent.py calls the   *)
(* standard lane itself): the agent is built and the lane is called with a *)
(* frame of the caller's.                                                  *)
(***************************************************************************)
DirectFrames == {EmptyFrame} \cup {tweets_to_dataframe(tw) : tw \in TweetLists}

DirectReady ==
    /\ run_pc = "idle"
    /\ instance = "none"
    /\ LanesIdle
    /\ direct_left > 0

\* agent = ContentAnalysisAgent(); agent.analyze_content_strategy(df, username)
direct_standard ==
    /\ DirectReady
    /\ direct_left' = direct_left - 1
    /\ \E key \in KeyValues, df \in DirectFrames, username \in Usernames :
         /\ openai_key' = key
         /\ tweets_df' = df
         /\ IF OpenAIRaises(key)
              THEN UNCHANGED <<stdVars, lane_username>>
              ELSE std_call(df, username)
    /\ UNCHANGED <<runCore, enhVars, LANGCHAIN_AVAILABLE, langchain_enabled,
                   enhanced_attempt, gen_log, category_writes>>
    /\ UNCHANGED clientVars
    /\ UNCHANGED gateVars

\* agent = LangChainContentAgent(); agent.analyze_content_with_langchain(df, username)
direct_enhanced ==
    /\ DirectReady
    /\ langchain_enabled = "unset"
    /\ direct_left' = direct_left - 1
    /\ \E key \in KeyValues, df \in DirectFrames, username \in Usernames,
          available \in AvailableValues, components_ok \in BOOLEAN :
         /\ openai_key' = key
         /\ tweets_df' = df
         /\ IF ctor_raises(key)
              THEN UNCHANGED <<LANGCHAIN_AVAILABLE, langchain_enabled,
                               lane_username, enh_pc>>
              ELSE /\ LANGCHAIN_AVAILABLE' = available
                   /\ langchain_enabled' = ctor_enabled(available, components_ok)
                   /\ lane_username' = username
                   /\ enh_pc' = "start"
    /\ UNCHANGED <<runCore, analyses, enh_result, stdVars, enhanced_attempt,
                   gen_log, category_writes>>
    /\ UNCHANGED clientVars
    /\ UNCHANGED gateVars

\* A further agent.analyze_content_with_langchain(df, username) on the agent
\* the caller has built.
direct_enhanced_again ==
    /\ DirectReady
    /\ langchain_enabled # "unset"
    /\ enh_pc = "done"
    /\ direct_left' = direct_left - 1
    /\ \E df \in DirectFrames, username \in Usernames :
         /\ tweets_df' = df
         /\ lane_username' = username
    /\ enh_pc' = "start"
    /\ UNCHANGED <<runCore, analyses, enh_result, stdVars, openai_key,
                   LANGCHAIN_AVAILABLE, langchain_enabled, enhanced_attempt,
                   gen_log, category_writes>>
    /\ UNCHANGED clientVars
    /\ UNCHANGED gateVars

DirectStep ==
    \/ direct_standard
    \/ direct_enhanced
    \/ direct_enhanced_again

ClientStep ==
    \/ _rate_limited_request
    \/ client_get_user
    \/ sleep_between
    \/ client_get_users_tweets
    \/ rate_limit_retry

Init ==
    /\ instance = "none"
    /\ time_since_last = min_delay
    /\ since_issue = min_delay
    /\ last_gap = min_delay
    /\ since_reject = cooldown
    /\ retry_wait = cooldown
    /\ pc = "idle"
    /\ args = NoRequest
    /\ top_args = NoRequest
    /\ depth = 0
    /\ rejections = 0
    /\ reissues = 0
    /\ was_rejected = FALSE
    /\ last_response = "none"
    /\ answered = FALSE
    /\ failed = FALSE
    /\ late_call = FALSE
    /\ user_data = "unset"
    /\ call_result = Pending
    /\ calls_left = MaxCalls
    /\ idle_ticks = 0
    /\ run_pc = "idle"
    /\ run_args = NoArgs
    /\ run_result = RunPending
    /\ run_exit = "none"
    /\ tweets = <<>>
    /\ tweets_df = EmptyFrame
    /\ results = EmptyDict
    /\ openai_key = "unread"
    /\ LANGCHAIN_AVAILABLE = "unread"
    /\ langchain_enabled = "unset"
    /\ lane_username = ""
    /\ enhanced_attempt = "none"
    /\ enh_pc = "idle"
    /\ analyses = EmptyDict
    /\ enh_result = NoResult
    /\ std_pc = "idle"
    /\ std_df = EmptyFrame
    /\ std_result = NoResult
    /\ gen_log = <<>>
    /\ category_writes = 0
    /\ direct_left = MaxDirect
    /\ gate_shared = FALSE
    /\ gate_now = min_delay
    /\ last_request_time = [i \in Callers |-> 0]
    /\ gate_pc = [t \in Callers |-> "idle"]
    /\ sleep_until = [t \in Callers |-> 0]
    /\ gate_calls = [t \in Callers |-> 0]
    /\ last_issue = [i \in Callers |-> 0]
    /\ pass_gap = [i \in Callers |-> min_delay]
    /\ issue_gap = [i \in Callers |-> min_delay]
    /\ raced = FALSE

Next ==
    \/ NewClient
    \/ CallClient
    \/ Tick
    \/ ClientStep
    \/ LaneStep
    \/ RunStep
    \/ DirectStep

Spec == Init /\ [][Next]_vars

(***************************************************************************)
(* A script that uses the classes itself, as test_content_agent.py does:   *)
(* analyzer = X_profile_analytics(tweets), then the standard lane on       *)
(* analyzer.df.  The posts are any sequence the caller holds.              *)
(***************************************************************************)
\* X_profile_analytics.__init__: self.df = self.tweets_to_dataframe().  The
\* posts are only read.
analytics_init ==
    /\ run_pc = "analytics"
    /\ IF transform_raises(tweets)
         THEN /\ run_pc' = "transform_raised"
              /\ UNCHANGED tweets_df
         ELSE /\ tweets_df' = tweets_to_dataframe(tweets)
              /\ run_pc' = "frame"
    /\ UNCHANGED <<run_args, run_result, run_exit, tweets, results, openai_key,
                   LANGCHAIN_AVAILABLE, langchain_enabled, lane_username,
                   enhanced_attempt, enhVars, stdVars, gen_log, category_writes,
                   direct_left>>
    /\ UNCHANGED clientVars
    /\ UNCHANGED gateVars

\* agent = ContentAnalysisAgent(); agent.analyze_content_strategy(tweets_df, username)
analytics_standard ==
    /\ run_pc = "frame"
    /\ std_pc = "idle"
    /\ \E key \in KeyValues, username \in Usernames :
         /\ openai_key' = key
         /\ IF OpenAIRaises(key)
              THEN /\ run_pc' = "agent_failed"
                   /\ UNCHANGED <<stdVars, lane_username>>
              ELSE /\ std_call(tweets_df, username)
                   /\ run_pc' = "analysis"
    /\ UNCHANGED <<run_args, run_result, run_exit, tweets, tweets_df, results,
                   LANGCHAIN_AVAILABLE, langchain_enabled, enhanced_attempt,
                   enhVars, gen_log, category_writes, direct_left>>
    /\ UNCHANGED clientVars
    /\ UNCHANGED gateVars

InitTransform ==
    /\ instance = "none"
    /\ time_since_last = min_delay
    /\ since_issue = min_delay
    /\ last_gap = min_delay
    /\ since_reject = cooldown
    /\ retry_wait = cooldown
    /\ pc = "idle"
    /\ args = NoRequest
    /\ top_args = NoRequest
    /\ depth = 0
    /\ rejections = 0
    /\ reissues = 0
    /\ was_rejected = FALSE
    /\ last_response = "none"
    /\ answered = FALSE
    /\ failed = FALSE
    /\ late_call = FALSE
    /\ user_data = "unset"
    /\ call_result = Pending
    /\ calls_left = MaxCalls
    /\ idle_ticks = 0
    /\ run_pc = "analytics"
    /\ run_args = NoArgs
    /\ run_result = RunPending
    /\ run_exit = "none"
    /\ tweets \in PostSeqs
    /\ tweets_df = EmptyFrame
    /\ results = EmptyDict
    /\ openai_key = "unread"
    /\ LANGCHAIN_AVAILABLE = "unread"
    /\ langchain_enabled = "unset"
    /\ lane_username = ""
    /\ enhanced_attempt = "none"
    /\ enh_pc = "idle"
    /\ analyses = EmptyDict
    /\ enh_result = NoResult
    /\ std_pc = "idle"
    /\ std_df = EmptyFrame
    /\ std_result = NoResult
    /\ gen_log = <<>>
    /\ category_writes = 0
    /\ direct_left = MaxDirect
    /\ gate_shared = FALSE
    /\ gate_now = min_delay
    /\ last_request_time = [i \in Callers |-> 0]
    /\ gate_pc = [t \in Callers |-> "idle"]
    /\ sleep_until = [t \in Callers |-> 0]
    /\ gate_calls = [t \in Callers |-> 0]
    /\ last_issue = [i \in Callers |-> 0]
    /\ pass_gap = [i \in Callers |-> min_delay]
    /\ issue_gap = [i \in Callers |-> min_delay]
    /\ raced = FALSE

NextTransform ==
    \/ analytics_init
    \/ analytics_standard
    \/ prepare_content_data
    \/ std_generate

TransformSpec == InitTransform /\ [][NextTransform]_vars

(***************************************************************************)
(* Two threads calling get_user_info at once, on one X_tweets instance or  *)
(* on one each.  _rate_limited_request reads self.last_request_time (line  *)
(* 33), may sleep (line 36) and writes it (line 37) with no lock, so the   *)
(* statements of the two callers interleave.                               *)
(***************************************************************************)
\* The instance a caller uses.
InstanceOf(t) == IF gate_shared THEN 1 ELSE t

gate_no_sleep(elapsed) == 0

\* Lines 34-35: the sleep the gate asks for after `elapsed` since the last pass.
gate_sleep_time(elapsed) == IF elapsed < min_delay THEN min_delay - elapsed ELSE 0

\* Lines 32-35: the caller enters get_user_info, reads the clock and the
\* instance's last_request_time and works out its sleep.
gate_read(t) ==
    /\ gate_pc[t] = "idle"
    /\ gate_calls[t] < MaxGateCalls
    /\ LET current_time == gate_now
           elapsed == current_time - last_request_time[InstanceOf(t)]
           sleep_time == gate_sleep_time(elapsed)
       IN  /\ sleep_until' = [sleep_until EXCEPT ![t] = current_time + sleep_time]
           /\ gate_pc' = [gate_pc EXCEPT ![t] = IF sleep_time > 0 THEN "sleep"
                                                ELSE "write"]
    /\ raced' = (raced \/ \E u \in Callers \ {t} :
                              /\ InstanceOf(u) = InstanceOf(t)
                              /\ gate_pc[u] \in {"sleep", "write"})
    /\ UNCHANGED <<gate_shared, gate_now, last_request_time, gate_calls, last_issue,
                   pass_gap, issue_gap>>
    /\ UNCHANGED <<clientVars, runVars>>

\* Line 36: time.sleep(sleep_time) returns when the time has passed.
gate_wake(t) ==
    /\ gate_pc[t] = "sleep"
    /\ gate_now >= sleep_until[t]
    /\ gate_pc' = [gate_pc EXCEPT ![t] = "write"]
    /\ UNCHANGED <<gate_shared, gate_now, last_request_time, sleep_until, gate_calls,
                   last_issue, pass_gap, issue_gap, raced>>
    /\ UNCHANGED <<clientVars, runVars>>

\* Line 37: self.last_request_time = time.time().
gate_write(t) ==
    /\ gate_pc[t] = "write"
    /\ last_request_time' = [last_request_time EXCEPT ![InstanceOf(t)] = gate_now]
    /\ pass_gap' = [pass_gap EXCEPT ![InstanceOf(t)] =
                        Min(@, gate_now - last_request_time[InstanceOf(t)])]
    /\ gate_pc' = [gate_pc EXCEPT ![t] = "issue"]
    /\ UNCHANGED <<gate_shared, gate_now, sleep_until, gate_calls, last_issue,
                   issue_gap, raced>>
    /\ UNCHANGED <<clientVars, runVars>>

\* Lines 44-48: the provider call, and the return.
gate_issue(t) ==
    /\ gate_pc[t] = "issue"
    /\ last_issue' = [last_issue EXCEPT ![InstanceOf(t)] = gate_now]
    /\ issue_gap' = [issue_gap EXCEPT ![InstanceOf(t)] =
                         Min(@, gate_now - last_issue[InstanceOf(t)])]
    /\ gate_calls' = [gate_calls EXCEPT ![t] = @ + 1]
    /\ gate_pc' = [gate_pc EXCEPT ![t] = "idle"]
    /\ UNCHANGED <<gate_shared, gate_now, last_request_time, sleep_until, pass_gap,
                   raced>>
    /\ UNCHANGED <<clientVars, runVars>>

\* The clock goes on.
gate_tick ==
    /\ gate_now < min_delay + ClockSpan
    /\ gate_now' = gate_now + 1
    /\ UNCHANGED <<gate_shared, last_request_time, gate_pc, sleep_until, gate_calls,
                   last_issue, pass_gap, issue_gap, raced>>
    /\ UNCHANGED <<clientVars, runVars>>

InitGate ==
    /\ instance = "none"
    /\ time_since_last = min_delay
    /\ since_issue = min_delay
    /\ last_gap = min_delay
    /\ since_reject = cooldown
    /\ retry_wait = cooldown
    /\ pc = "idle"
    /\ args = NoRequest
    /\ top_args = NoRequest
    /\ depth = 0
    /\ rejections = 0
    /\ reissues = 0
    /\ was_rejected = FALSE
    /\ last_response = "none"
    /\ answered = FALSE
    /\ failed = FALSE
    /\ late_call = FALSE
    /\ user_data = "unset"
    /\ call_result = Pending
    /\ calls_left = MaxCalls
    /\ idle_ticks = 0
    /\ run_pc = "idle"
    /\ run_args = NoArgs
    /\ run_result = RunPending
    /\ run_exit = "none"
    /\ tweets = <<>>
    /\ tweets_df = EmptyFrame
    /\ results = EmptyDict
    /\ openai_key = "unread"
    /\ LANGCHAIN_AVAILABLE = "unread"
    /\ langchain_enabled = "unset"
    /\ lane_username = ""
    /\ enhanced_attempt = "none"
    /\ enh_pc = "idle"
    /\ analyses = EmptyDict
    /\ enh_result = NoResult
    /\ std_pc = "idle"
    /\ std_df = EmptyFrame
    /\ std_result = NoResult
    /\ gen_log = <<>>
    /\ category_writes = 0
    /\ direct_left = MaxDirect
    /\ gate_shared \in BOOLEAN
    /\ gate_now = min_delay
    /\ last_request_time = [i \in Callers |-> 0]
    /\ gate_pc = [t \in Callers |-> "idle"]
    /\ sleep_until = [t \in Callers |-> 0]
    /\ gate_calls = [t \in Callers |-> 0]
    /\ last_issue = [i \in Callers |-> 0]
    /\ pass_gap = [i \in Callers |-> min_delay]
    /\ issue_gap = [i \in Callers |-> min_delay]
    /\ raced = FALSE

NextGate ==
    \/ \E t \in Callers : gate_read(t)
    \/ \E t \in Callers : gate_wake(t)
    \/ \E t \in Callers : gate_write(t)
    \/ \E t \in Callers : gate_issue(t)
    \/ gate_tick

GateSpec == InitGate /\ [][NextGate]_vars

(***************************************************************************)
(* Properties.                                                             *)
(***************************************************************************)
Ended == pc \in {"returned", "raised"}

\* C1: on one X_tweets instance no two consecutive outbound provider calls are
\* issued less than min_delay apart, the lookup and the listing of one
\* get_users_tweets call included.
C1_MinDelayBetweenCalls == last_gap >= min_delay

\* C2: after a rate-limit rejection the client waits the full cooldown, re-issues
\* the request with the same arguments, and the caller gets the outcome of the
\* re-issued request: a call that was rejected never ends on the rejection, and
\* never with an exception.
C2_RejectionRetried ==
    /\ retry_wait >= cooldown
    /\ (depth > 1 => args = top_args)
    /\ (Ended /\ was_rejected =>
            last_response # "rate_limit" /\ call_result.kind # "raise")

\* C3: after a provider failure other than a rate-limit rejection (a handle
\* that resolves to no user included) no further outbound call is made, the
\* call ends with [] (get_users_tweets) or None (get_user_info), it is not
\* retried and it does not raise.
C3_OtherErrorsGiveUp ==
    /\ ~late_call
    /\ (failed => pc \in {"pause", "listing", "returned"})
    /\ (failed /\ pc \in {"pause", "listing"} => user_data = "absent")
    /\ (failed /\ Ended => call_result = FailureValue(top_args))

C3_Witness ==
    /\ failed
    /\ was_rejected
    /\ pc = "returned"
    /\ last_response = "error"
    /\ call_result = FailureValue(top_args)

\* C4: a fetch re-issues its request once per rejection, without bound, and
\* does not end while every response has been a rejection.
C4_RetriesUntilAnswered ==
    /\ (Running => reissues = IF pc = "cooldown" THEN rejections - 1 ELSE rejections)
    /\ (Ended /\ was_rejected => answered)

\* C5: when the fetch gives no posts the run returns by the no-data exit, with
\* no frame built, no lane called and no generation call made.
C5_NoDataEndsRun ==
    /\ [](run_exit = "no_data" =>
            /\ run_pc = "done"
            /\ run_result = RunNone
            /\ tweets_df = EmptyFrame
            /\ category_writes = 0
            /\ enhanced_attempt = "none"
            /\ enh_pc = "idle"
            /\ std_pc = "idle"
            /\ gen_log = <<>>)
    /\ [][(run_pc = "fetch" /\ pc = "returned" /\ call_result.val = <<>>
           /\ run_pc' # "fetch") => run_exit' = "no_data"]_vars

C5_Witness ==
    /\ run_exit = "no_data"
    /\ run_pc = "done"

\* C6: every results dict get_profile_analysis returns has the standard entry,
\* and has the enhanced entry only if use_langchain was set.
C6_BundleKeys ==
    run_result.kind = "dict" =>
        /\ "standard" \in DOMAIN run_result.val
        /\ ("langchain" \in DOMAIN run_result.val => run_args.use_langchain)

C6_Witness ==
    /\ run_result.kind = "dict"
    /\ DOMAIN run_result.val = {"standard", "langchain"}

\* C7: with the enhanced lane enabled, the returned dict has the enhanced key,
\* and after a failed attempt (a failing constructor included) the entry is an
\* error marker.
C7_FailedEnhancedKeepsKey ==
    (run_result.kind = "dict" /\ run_args.use_langchain) =>
        /\ "langchain" \in DOMAIN run_result.val
        /\ (enhanced_attempt = "ctor_failed" =>
                "error" \in DOMAIN run_result.val["langchain"])

\* Some generation call of the enhanced lane has failed.
EnhancedCallFailed ==
    \E i \in 1..Len(gen_log) : gen_log[i].lane = "enhanced" /\ ~gen_log[i].ok

\* C8: the enhanced lane never returns a result without an "error" entry when
\* one of its generation calls has failed.
C8_FailedCallGivesErrorEntry ==
    (enh_pc = "done" /\ EnhancedCallFailed) => "error" \in DOMAIN enh_result

\* The enhanced lane was off, or its attempt failed.
EnhancedOffOrFailed ==
    \/ ~run_args.use_langchain
    \/ enhanced_attempt = "ctor_failed"
    \/ /\ enhanced_attempt = "returned"
       /\ "error" \in DOMAIN results["langchain"]

\* C9: when the enhanced lane is off or fails, the run is not aborted: the
\* standard lane runs on the run's frame and the returned dict has a standard
\* entry made from it.
C9_StandardSurvivesEnhanced ==
    (run_pc = "done" /\ category_writes >= 1 /\ EnhancedOffOrFailed) =>
        /\ run_exit = "results"
        /\ run_result.kind = "dict"
        /\ "standard" \in DOMAIN run_result.val
        /\ run_result.val["standard"] = std_result
        /\ std_result.data_summary.total = Len(tweets)
        /\ std_df = AssignCategories(tweets_to_dataframe(tweets))

C9_Witness ==
    /\ run_pc = "done"
    /\ run_args.use_langchain
    /\ enhanced_attempt = "ctor_failed"
    /\ run_exit = "results"

\* Some generation call of the standard lane has failed.
StandardCallFailed ==
    \E i \in 1..Len(gen_log) : gen_log[i].lane = "standard" /\ ~gen_log[i].ok

\* C10: the standard lane never raises to its caller, and a failed generation
\* call shows as error text in the analysis field.
C10_StandardNeverRaises ==
    /\ std_pc # "raised"
    /\ (std_pc = "done" /\ StandardCallFailed =>
            std_result.analysis = gen_ai_analysis(FALSE))

\* C11: get_profile_analysis never raises: whichever step fails (the client
\* call, the transform, the construction of an agent, a lane), the run ends with
\* a returned value, None after a failure that reaches the outer handler.
C11_RunNeverRaises ==
    /\ run_result.kind # "raise"
    /\ (run_pc = "done" /\ run_exit # "exit" => run_result.kind \in {"None", "dict"})
    /\ (run_exit = "except" => run_pc = "done" /\ run_result = RunNone)

C11_Witness ==
    /\ run_pc = "done"
    /\ run_exit = "except"
    /\ openai_key = "none"
    /\ tweets # <<>>

\* C12: with langchain_enabled true after construction and no failed provider
\* call, the enhanced lane returns a result that is not an error marker and
\* holds the question-to-answer mapping and the recommendations.
C12_IndexedLaneSucceeds ==
    (enh_pc = "done" /\ langchain_enabled = "yes" /\ ~EnhancedCallFailed) =>
        /\ "error" \notin DOMAIN enh_result
        /\ "theme_analyses" \in DOMAIN enh_result
        /\ "recommendations" \in DOMAIN enh_result

\* A credential the run has looked for was missing: the bearer token (the
\* client was left bare, or main exited) or the generation key.
CredentialMissing ==
    \/ instance = "bare"
    \/ run_exit = "exit"
    \/ key_missing(openai_key)

\* C13: a run with a missing credential ends as a failure, and in it no posts
\* have been obtained from the provider and no generation call has been made.
C13_MissingCredentialAborts ==
    (run_pc = "done" /\ CredentialMissing) =>
        /\ run_exit \in {"exit", "except"}
        /\ tweets = <<>>
        /\ gen_log = <<>>

\* Some keyword of the group occurs in the lower-cased text.
Matches(text, patterns) == \E i \in 1..Len(text) : Lower(text[i]) \in patterns

Labels == {"Educational", "Personal", "Promotional", "Opinion/Commentary",
           "News/Updates", "General"}

\* The label the fixed precedence gives a text.
ByPrecedence(text) ==
    LET groups == << <<"Educational", educational_patterns>>,
                     <<"Personal", personal_patterns>>,
                     <<"Promotional", promotional_patterns>>,
                     <<"Opinion/Commentary", opinion_patterns>>,
                     <<"News/Updates", news_patterns>> >>
        hits == {g \in 1..5 : Matches(text, groups[g][2])}
    IN  IF hits = {} THEN "General"
        ELSE groups[CHOOSE g \in hits : \A h \in hits : g <= h][1]

\* C14: every category written for a row is the label of the first group, in
\* the order Educational, Personal, Promotional, Opinion/Commentary,
\* News/Updates, with a keyword in the lower-cased text, General exactly when
\* no group matches; a text with "how to" is Educational; the label is one of
\* the six, and equal texts get equal labels.
C14_CategoryPrecedence ==
    \A i \in 1..Len(tweets_df) :
        "content_category" \in DOMAIN tweets_df[i] =>
            /\ tweets_df[i].content_category \in Labels
            /\ tweets_df[i].content_category = ByPrecedence(tweets_df[i].text)
            /\ (tweets_df[i].content_category = "General" <=>
                    ~Matches(tweets_df[i].text,
                             educational_patterns \cup personal_patterns
                             \cup promotional_patterns \cup opinion_patterns
                             \cup news_patterns))
            /\ (Matches(tweets_df[i].text, {"how to"}) =>
                    tweets_df[i].content_category = "Educational")
            /\ \A j \in 1..Len(tweets_df) :
                    tweets_df[j].text = tweets_df[i].text =>
                        tweets_df[j].content_category = tweets_df[i].content_category

C14_Witness ==
    /\ std_pc = "done"
    /\ \E i \in 1..Len(tweets_df) :
          /\ Matches(tweets_df[i].text, {"how to"})
          /\ Matches(tweets_df[i].text, personal_patterns)
          /\ tweets_df[i].content_category = "Educational"
    /\ \E i \in 1..Len(tweets_df) :
          /\ Matches(tweets_df[i].text, opinion_patterns)
          /\ Matches(tweets_df[i].text, news_patterns)
          /\ tweets_df[i].content_category = "Opinion/Commentary"

\* C15: within one run the content_category column is written once: after the
\* categorizer's write no later step writes it again.
C15_CategoryWrittenOnce == run_pc # "idle" => category_writes <= 1

\* C16: the transform fails only on a sequence with a malformed post: it does
\* not fail on well-formed posts, the empty sequence included.
C16_TransformFailsOnlyOnMalformed ==
    run_pc = "transform_raised" => \E i \in 1..Len(tweets) : ~well_formed(tweets[i])

\* C17: for three rows with engagement 5, 10 and 15 the summary has mean 10.0,
\* median 10.0, max 15 and consistency 0.41 (0.408: the population standard
\* deviation over the mean), not 0.50.
C17_SummaryFigures ==
    (std_pc = "done" /\ Len(tweets_df) = 3
     /\ SortedSeq(Engagements(tweets_df)) = <<5, 10, 15>>) =>
        /\ std_result.data_summary.mean = 100
        /\ std_result.data_summary.median = 100
        /\ std_result.data_summary.best = 15
        /\ std_result.data_summary.consistency = [nan |-> FALSE, hundredths |-> 41]

\* The transform has returned a frame.
Transformed == run_pc \in {"frame", "analysis", "agent_failed"}

\* C18: the engagement of every row is the sum of the four counts of its post,
\* and is not negative.
C18_EngagementIsSum ==
    Transformed =>
        \A i \in 1..Len(tweets_df) :
            /\ tweets_df[i].engagement =
                   tweets[i].like_count + tweets[i].retweet_count
                   + tweets[i].reply_count + tweets[i].quote_count
            /\ tweets_df[i].engagement >= 0

C18_Witness ==
    /\ run_pc = "frame"
    /\ \E i \in 1..Len(tweets) :
          /\ tweets[i] = Post3
          /\ tweets_df[i].engagement = 10

\* Every post has every field, and there is at least one.
WellFormedPosts ==
    /\ tweets # <<>>
    /\ \A i \in 1..Len(tweets) : well_formed(tweets[i])

\* C19: posts with like_count = 0 do not make the transform fail, and their
\* engagement_rate is the engagement divided by 1; for like_count >= 1 the
\* divisor is like_count.
C19_ZeroLikesRate ==
    (WellFormedPosts /\ run_pc # "analytics") =>
        /\ run_pc # "transform_raised"
        /\ \A i \in 1..Len(tweets_df) :
              /\ tweets_df[i].engagement_rate.num = tweets_df[i].engagement
              /\ tweets_df[i].engagement_rate.den =
                     IF tweets[i].like_count = 0 THEN 1 ELSE tweets[i].like_count

C19_Witness ==
    /\ run_pc = "frame"
    /\ \E i \in 1..Len(tweets) :
          /\ tweets[i].like_count = 0
          /\ tweets_df[i].engagement_rate = [num |-> 15, den |-> 1]
    /\ \E i \in 1..Len(tweets) :
          /\ tweets[i].like_count = 4
          /\ tweets_df[i].engagement_rate = [num |-> 10, den |-> 4]

\* C20: the frame has one row per post, in the order of the posts: row i is
\* made from post i, and the frame is as long as the sequence of posts.
C20_OneRowPerPostInOrder ==
    Transformed =>
        /\ Len(tweets_df) = Len(tweets)
        /\ \A i \in 1..Len(tweets_df) :
              /\ tweets_df[i].text = tweets[i].text
              /\ tweets_df[i].likes = tweets[i].like_count
              /\ tweets_df[i].retweets = tweets[i].retweet_count
              /\ tweets_df[i].replies = tweets[i].reply_count
              /\ tweets_df[i].quotes = tweets[i].quote_count

C20_Witness ==
    /\ run_pc = "frame"
    /\ Len(tweets) = 3
    /\ tweets[1] # tweets[2]
    /\ tweets[2] # tweets[3]
    /\ tweets_df[1].text = tweets[1].text
    /\ tweets_df[3].text = tweets[3].text

\* A lane is running.
EnhancedRunning == enh_pc \in {"start", "themes", "engagement", "strategy"}
StandardRunning == std_pc \in {"prepare", "generate"}

\* C21: in a run with the enhanced lane enabled the standard lane starts only
\* when the enhanced lane has finished (its constructor raised, or its analysis
\* returned a result or an error marker); the lanes never overlap; and a run
\* that has tried the enhanced lane does not end without the standard lane.
C21_StandardAfterEnhanced ==
    /\ ~(EnhancedRunning /\ StandardRunning)
    /\ (run_args.use_langchain /\ std_pc # "idle" =>
            /\ enhanced_attempt \in {"ctor_failed", "returned"}
            /\ ~EnhancedRunning)
    /\ (run_args.use_langchain /\ run_pc = "done" /\ enhanced_attempt # "none" =>
            std_pc \in {"done", "raised"})

C21_Witness ==
    /\ run_args.use_langchain
    /\ enhanced_attempt = "returned"
    /\ "error" \in DOMAIN results["langchain"]
    /\ std_pc = "done"
    /\ run_pc = "done"

\* C22: once the enhanced agent is constructed, langchain_enabled never
\* changes: no step of a call of analyze_content_with_langchain, failed or not,
\* and no further call on the agent writes it, and the variant a call runs is
\* the one the flag names.
C22_VariantFixedAtConstruction ==
    /\ [][langchain_enabled # "unset" => langchain_enabled' = langchain_enabled]_vars
    /\ [](enh_pc \in {"themes", "engagement", "strategy"} => langchain_enabled = "no")

C22_Witness ==
    /\ direct_left = MaxDirect - 2
    /\ std_pc = "idle"
    /\ enh_pc = "done"
    /\ langchain_enabled = "yes"
    /\ "error" \in DOMAIN enh_result

\* The generation calls of the enhanced lane, in order.
EnhancedLog == SelectSeq(gen_log, LAMBDA c : c.lane = "enhanced")

ChainOrder == <<"themes", "engagement", "recommendations">>

\* The output of a logged call, as _call_openai returns it.
OutputOf(c) == _call_openai(c.ok)

\* C23: the direct variant makes its generation calls in rounds of exactly
\* three, in the order themes, engagement, recommendations, one round per
\* analysis of a frame with posts; the recommendations call comes after the
\* other two have returned and its prompt embeds their outputs; a failed call
\* passes its error text on and the rest of the round is still made.
C23_ThreeCallsInOrder ==
    /\ \A i \in 1..Len(EnhancedLog) :
          /\ EnhancedLog[i].step = ChainOrder[((i - 1) % 3) + 1]
          /\ (EnhancedLog[i].step = "recommendations" =>
                  EnhancedLog[i].embeds =
                      <<OutputOf(EnhancedLog[i - 2]), OutputOf(EnhancedLog[i - 1])>>)
    /\ (enh_pc = "themes" => Len(EnhancedLog) % 3 = 0)
    /\ (enh_pc = "engagement" =>
            /\ Len(EnhancedLog) % 3 = 1
            /\ analyses["themes"] = OutputOf(EnhancedLog[Len(EnhancedLog)]))
    /\ (enh_pc = "strategy" =>
            /\ Len(EnhancedLog) % 3 = 2
            /\ analyses["engagement"] = OutputOf(EnhancedLog[Len(EnhancedLog)]))
    /\ (enh_pc = "done" => Len(EnhancedLog) % 3 = 0)
    /\ (enh_pc = "done" /\ "analysis_type" \in DOMAIN enh_result =>
            /\ Len(EnhancedLog) >= 3
            /\ enh_result.theme_analyses["themes"]
                   = OutputOf(EnhancedLog[Len(EnhancedLog) - 2])
            /\ enh_result.recommendations = OutputOf(EnhancedLog[Len(EnhancedLog)]))

C23_Witness ==
    /\ enh_pc = "done"
    /\ "analysis_type" \in DOMAIN enh_result
    /\ Len(EnhancedLog) = 3
    /\ ~EnhancedLog[1].ok
    /\ EnhancedLog[3].ok
    /\ EnhancedLog[3].embeds = <<_call_openai(FALSE), _call_openai(TRUE)>>

\* The generation calls of the standard lane, in order.
StandardLog == SelectSeq(gen_log, LAMBDA c : c.lane = "standard")

\* C24: one execution of the standard lane makes exactly one generation call,
\* failed or not: none before the prompt is built, one when the lane has
\* returned, and it is the call whose outcome the analysis field shows.
C24_OneGenerationCall ==
    /\ (std_pc \in {"idle", "prepare", "generate", "raised"} => StandardLog = <<>>)
    /\ (std_pc = "done" =>
            /\ Len(StandardLog) = 1
            /\ std_result.analysis = gen_ai_analysis(StandardLog[1].ok))

C24_Witness ==
    /\ std_pc = "done"
    /\ Len(StandardLog) = 1
    /\ ~StandardLog[1].ok
    /\ openai_key = "set"

\* C25: the gate is not atomic.  Passes of the gate of one instance that do
\* not race (no caller reads last_request_time while another caller of the
\* same instance is between its read and its write) are min_delay apart, and
\* callers with one instance each never race; callers sharing an instance can
\* (witness): both read before either writes and both issue their provider
\* calls less than min_delay apart.
C25_GatePerInstance ==
    /\ (~gate_shared => ~raced)
    /\ (~raced => \A i \in Callers : pass_gap[i] >= min_delay)

C25_Witness ==
    /\ gate_shared
    /\ raced
    /\ gate_calls[1] >= 1
    /\ gate_calls[2] >= 1
    /\ pass_gap[1] < min_delay
    /\ issue_gap[1] < min_delay

\* Callers with one instance each have each passed their gate twice.
C25_SeparateInstancesPassed ==
    /\ ~gate_shared
    /\ \A t \in Callers : gate_calls[t] = MaxGateCalls

=============================================================================
